---- MODULE Spec2Model ----
(***************************************************************************)
(* Model of validate_json_id.py: the id normaliser clean_id and the        *)
(* validation run that main() performs when "Validate & Correct" is        *)
(* clicked.                                                                *)
(*                                                                         *)
(* A Python str is a sequence of characters; a character is a one-element  *)
(* TLA+ string ("a", " ", ...), the two non-ASCII code points used are     *)
(* written "U+0130" and "U+0307".  A reason string is the sequence of the  *)
(* string literals it was concatenated from, so <<"duplicate",             *)
(* " (duplicate)">> is the Python string "duplicate (duplicate)" and <<>>  *)
(* is "".                                                                  *)
(***************************************************************************)
EXTENDS Integers, Sequences, FiniteSets, TLC

VARIABLES
    \* ---- the validation run (main) ----
    original_text,   \* the text area's content: [kind, data]
    pc,              \* position of the run inside main()
    data,            \* the parsed document, mutated in place by the loop
    i,               \* index of the next element of data["objects"]
    cleaned_ids,     \* set of canonical ids seen so far
    invalid_ids,     \* dict original id -> reason
    id_map,          \* dict original id -> canonical id
    outcome,         \* how the run ended
    shown,           \* what was rendered for the original text
    corrected_json_str, \* the document handed to json.dumps / download
    \* ---- calls of clean_id on their own ----
    original_id,     \* argument of clean_id
    new_id,          \* clean_id(original_id)
    again_id,        \* clean_id(new_id)
    policy,          \* the policy the caller would like to select
    npc              \* position of the normaliser caller

vars == <<original_text, pc, data, i, cleaned_ids, invalid_ids, id_map, outcome,
          shown, corrected_json_str, original_id, new_id, again_id, policy, npc>>

runVars == <<original_text, pc, data, i, cleaned_ids, invalid_ids, id_map, outcome,
             shown, corrected_json_str>>

normVars == <<original_id, new_id, again_id, policy, npc>>

-----------------------------------------------------------------------------
(* Bounds *)

MaxLen == 3        \* longest string given to clean_id on its own

MaxEntries == 3    \* longest "objects" list of a document

-----------------------------------------------------------------------------
(* Characters *)

LowerLetters ==
    {"a", "b", "c", "d", "e", "f", "g", "h", "i", "j", "k", "l", "m",
     "n", "o", "p", "q", "r", "s", "t", "u", "v", "w", "x", "y", "z"}

Digits == {"0", "1", "2", "3", "4", "5", "6", "7", "8", "9"}

\* The characters the inputs are drawn from: a lowercase letter, an uppercase
\* letter, the underscore, the space, a digit, a punctuation mark and
\* U+0130, the one code point whose lowercase is two code points long.
Chars == {"a", "A", "_", " ", "1", "-", "U+0130"}

\* str.lower() on one character.
LowerChar(c) ==
    CASE c = "A"      -> <<"a">>
      [] c = "U+0130" -> <<"i", "U+0307">>
      [] OTHER        -> <<c>>

\* original_id.lower()
RECURSIVE lower(_)
lower(s) == IF s = <<>> THEN <<>> ELSE LowerChar(Head(s)) \o lower(Tail(s))

\* s.replace(old, new) for a one-character old.
RECURSIVE replace(_, _, _)
replace(s, old, new) ==
    IF s = <<>> THEN <<>>
    ELSE (IF Head(s) = old THEN new ELSE <<Head(s)>>) \o replace(Tail(s), old, new)

\* The character class [^a-z_] of the pattern.
Pattern(c) == c \notin (LowerLetters \cup {"_"})

\* A pattern that also lets the digits through.
sub_keepdigits(s) ==
    SelectSeq(s, LAMBDA c : c \in (LowerLetters \cup Digits \cup {"_"}))

\* The pattern without its caret: removes what it should keep.
sub_nocaret(s) == SelectSeq(s, LAMBDA c : Pattern(c))

\* re.sub with count=1: only the first match is removed.
RECURSIVE sub_once(_)
sub_once(s) ==
    IF s = <<>> THEN <<>>
    ELSE IF Pattern(Head(s)) THEN Tail(s)
    ELSE <<Head(s)>> \o sub_once(Tail(s))

\* re.sub(r'[^a-z_]', '', s)
sub(s) == SelectSeq(s, LAMBDA c : ~Pattern(c))

\* clean_id(original_id)
clean_id(s) == sub(replace(lower(s), " ", <<>>))

\* The strings of at most n characters.
Strings(n) == UNION {[1..k -> Chars] : k \in 0..n}

-----------------------------------------------------------------------------
(* Calls of clean_id on their own: a caller picks a string and the policy  *)
(* it would like, calls clean_id, and calls it again on the result.        *)
(* clean_id has the single parameter original_id, so the policy cannot be  *)
(* passed on.                                                              *)

Policies == {"strict", "permissive"}

NoData ==
    [kind |-> "none", has_objects |-> FALSE, objects_type |-> "none",
     objects |-> <<>>, extra |-> 0]

NoText == [kind |-> "empty", data |-> NoData]

RunIdle ==
    /\ original_text = NoText
    /\ pc = "idle"
    /\ data = NoData
    /\ i = 1
    /\ cleaned_ids = {}
    /\ invalid_ids = <<>>
    /\ id_map = <<>>
    /\ outcome = "none"
    /\ shown = "none"
    /\ corrected_json_str = NoData

InitNorm ==
    /\ RunIdle
    /\ original_id \in Strings(MaxLen)
    /\ policy \in Policies
    /\ new_id = <<>>
    /\ again_id = <<>>
    /\ npc = "call"

Normalize ==
    /\ npc = "call"
    /\ new_id' = clean_id(original_id)
    /\ npc' = "recall"
    /\ UNCHANGED <<original_id, again_id, policy, runVars>>

Renormalize ==
    /\ npc = "recall"
    /\ again_id' = clean_id(new_id)
    /\ npc' = "returned"
    /\ UNCHANGED <<original_id, new_id, policy, runVars>>

NextNorm == Normalize \/ Renormalize

SpecNorm == InitNorm /\ [][NextNorm]_vars

-----------------------------------------------------------------------------
(* The validation run.  A JSON value is a record of one shape:              *)
(*   kind          "dict", "list", "str" or "num" (num: a number, true,     *)
(*                 false or null)                                           *)
(*   has_objects   the value of  "objects" in data  where that is defined   *)
(*                 (a key of a dict, an element of a list, a substring of   *)
(*                 a str)                                                   *)
(*   objects_type  "list" when data["objects"] is a list                    *)
(*   objects       the elements of that list                                *)
(*   extra         another top-level key's value                            *)
(* and an element of "objects" is a record                                  *)
(*   kind          as above                                                 *)
(*   has_id        the value of  "id" in obj  where that is defined         *)
(*   id_type       "str" when obj["id"] is a string, "int" when a number    *)
(*   id            the characters of obj["id"]                              *)
(*   other         another field's value                                    *)

INVALID == "invalid characters or uppercase"

\* The ids of the documents.
DocIds == {<<"a">>, <<"A">>, <<"a", "1">>, <<"_">>, <<"1">>}

Entries ==
    {[kind |-> "dict", has_id |-> TRUE, id_type |-> "str", id |-> s, other |-> 1] :
        s \in DocIds}
    \cup {[kind |-> "dict", has_id |-> FALSE, id_type |-> "none", id |-> <<>>, other |-> o] :
        o \in {0, 1}}
    \cup {[kind |-> "dict", has_id |-> TRUE, id_type |-> "int", id |-> <<"1">>, other |-> 1]}
    \cup {[kind |-> "num", has_id |-> FALSE, id_type |-> "none", id |-> <<>>, other |-> 0]}
    \cup {[kind |-> k, has_id |-> b, id_type |-> "none", id |-> <<>>, other |-> 0] :
        k \in {"str", "list"}, b \in BOOLEAN}

Documents ==
    {[kind |-> "num", has_objects |-> FALSE, objects_type |-> "none",
      objects |-> <<>>, extra |-> 0]}
    \cup {[kind |-> k, has_objects |-> b, objects_type |-> "none",
           objects |-> <<>>, extra |-> 0] : k \in {"str", "list"}, b \in BOOLEAN}
    \cup {[kind |-> "dict", has_objects |-> FALSE, objects_type |-> "none",
           objects |-> <<>>, extra |-> e] : e \in {0, 1}}
    \cup {[kind |-> "dict", has_objects |-> TRUE, objects_type |-> "other",
           objects |-> <<>>, extra |-> 1]}
    \cup {[kind |-> "dict", has_objects |-> TRUE, objects_type |-> "list",
           objects |-> o, extra |-> 1] :
             o \in UNION {[1..n -> Entries] : n \in 0..MaxEntries}}

\* The texts: empty, whitespace only, not JSON, or the JSON text of a document.
Texts ==
    {[kind |-> k, data |-> NoData] : k \in {"empty", "blank", "invalid"}}
    \cup {[kind |-> "json", data |-> d] : d \in Documents}

NormIdle ==
    /\ original_id = <<>>
    /\ new_id = <<>>
    /\ again_id = <<>>
    /\ policy = "strict"
    /\ npc = "idle"

Init ==
    /\ original_text \in Texts
    /\ pc = "button"
    /\ data = NoData
    /\ i = 1
    /\ cleaned_ids = {}
    /\ invalid_ids = <<>>
    /\ id_map = <<>>
    /\ outcome = "none"
    /\ shown = "none"
    /\ corrected_json_str = NoData
    /\ NormIdle

\* dict.get(k, "") and dict.get(k): the value, or a falsy one.
get(d, k) == IF k \in DOMAIN d THEN d[k] ELSE <<>>

\* A strip-less test: only the empty text counts as empty.
IsBlank_nostrip(text) == text.kind = "empty"

\* not original_text.strip()
IsBlank(text) == text.kind \in {"empty", "blank"}

\* st.error(...) ; return
Fail(kind) ==
    /\ outcome' = kind
    /\ pc' = "done"

\* An exception leaves main().
Raise(kind) ==
    /\ outcome' = kind
    /\ pc' = "done"

\* if not original_text.strip(): error, return
CheckEmpty ==
    /\ pc = "button"
    /\ IF IsBlank(original_text)
       THEN Fail("EmptyInput")
       ELSE pc' = "parse" /\ UNCHANGED outcome
    /\ UNCHANGED <<original_text, data, i, cleaned_ids, invalid_ids, id_map,
                   shown, corrected_json_str, normVars>>

\* data = json.loads(original_text), JSONDecodeError: error, return
Parse ==
    /\ pc = "parse"
    /\ IF original_text.kind # "json"
       THEN Fail("ParseError") /\ UNCHANGED data
       ELSE data' = original_text.data /\ pc' = "schema" /\ UNCHANGED outcome
    /\ UNCHANGED <<original_text, i, cleaned_ids, invalid_ids, id_map,
                   shown, corrected_json_str, normVars>>

\* if "objects" not in data or not isinstance(data["objects"], list)
CheckSchema ==
    /\ pc = "schema"
    /\ CASE data.kind = "num" -> Raise("TypeError")
         [] data.kind \in {"str", "list"} /\ data.has_objects -> Raise("TypeError")
         [] data.kind \in {"str", "list"} /\ ~data.has_objects -> Fail("SchemaError")
         [] data.kind = "dict" /\ ~(data.has_objects /\ data.objects_type = "list") ->
                Fail("SchemaError")
         [] OTHER -> pc' = "loop" /\ UNCHANGED outcome
    /\ UNCHANGED <<original_text, data, i, cleaned_ids, invalid_ids, id_map,
                   shown, corrected_json_str, normVars>>

\* An element of "objects" the loop body runs on without raising.
HasStrId(obj) == obj.kind = "dict" /\ obj.has_id /\ obj.id_type = "str"

\* A duplicate replaces the reason instead of extending it.
Flag_overwrite(inv, cleaned, orig, new) ==
    IF new \in cleaned THEN (orig :> <<"duplicate">>) @@ inv
    ELSE IF new # orig THEN (orig :> <<INVALID>>) @@ inv
    ELSE inv

\* The two classification steps of the loop body.
Flag(inv, cleaned, orig, new) ==
    LET changed == IF new # orig THEN (orig :> <<INVALID>>) @@ inv ELSE inv
        prev == get(changed, orig)
    IN  IF new \in cleaned
        THEN (orig :> (prev \o (IF prev # <<>> THEN <<" (duplicate)">>
                                               ELSE <<"duplicate">>))) @@ changed
        ELSE changed

\* The entry is rebuilt from the new id alone.
Rewrite_rebuild(obj, new) == [obj EXCEPT !.id = new, !.other = 0]

\* obj["id"] = new_id
Rewrite(obj, new) == [obj EXCEPT !.id = new]

\* One iteration of  for obj in data["objects"].
LoopStep ==
    /\ pc = "loop"
    /\ i <= Len(data.objects)
    /\ LET obj == data.objects[i]
           orig == obj.id
           new == clean_id(orig)
       IN  CASE obj.kind = "num" ->
                    /\ Raise("TypeError")
                    /\ UNCHANGED <<data, i, cleaned_ids, invalid_ids, id_map>>
             [] obj.kind \in {"str", "list"} /\ obj.has_id ->
                    /\ Raise("TypeError")
                    /\ UNCHANGED <<data, i, cleaned_ids, invalid_ids, id_map>>
             [] obj.kind = "dict" /\ obj.has_id /\ obj.id_type # "str" ->
                    /\ Raise("AttributeError")
                    /\ UNCHANGED <<data, i, cleaned_ids, invalid_ids, id_map>>
             [] ~obj.has_id /\ obj.kind # "num" ->
                    /\ i' = i + 1
                    /\ UNCHANGED <<pc, outcome, data, cleaned_ids, invalid_ids, id_map>>
             [] OTHER ->
                    /\ invalid_ids' = Flag(invalid_ids, cleaned_ids, orig, new)
                    /\ cleaned_ids' = cleaned_ids \cup {new}
                    /\ data' = [data EXCEPT !.objects[i] = Rewrite(obj, new)]
                    /\ id_map' = (orig :> new) @@ id_map
                    /\ i' = i + 1
                    /\ UNCHANGED <<pc, outcome>>
    /\ UNCHANGED <<original_text, shown, corrected_json_str, normVars>>

\* After the loop: the highlighted or the plain original text, then the
\* corrected JSON and its download.
Report ==
    /\ pc = "loop"
    /\ i > Len(data.objects)
    /\ shown' = IF invalid_ids # <<>> THEN "annotated" ELSE "plain"
    /\ corrected_json_str' = data
    /\ outcome' = "success"
    /\ pc' = "done"
    /\ UNCHANGED <<original_text, data, i, cleaned_ids, invalid_ids, id_map, normVars>>

Next == CheckEmpty \/ Parse \/ CheckSchema \/ LoopStep \/ Report

Spec == Init /\ [][Next]_vars

-----------------------------------------------------------------------------
(* Properties of the validation run (checked under Spec) *)

\* The "objects" list as it was parsed, before the loop rewrote any id.
In == original_text.data.objects

\* The canonical id of entry k was produced by an earlier entry.
SeenBefore(k) ==
    \E j \in 1..(k - 1) : HasStrId(In[j]) /\ clean_id(In[j].id) = clean_id(In[k].id)

\* A reason that says duplicate.
SaysDuplicate(r) == \E p \in 1..Len(r) : r[p] \in {"duplicate", " (duplicate)"}

Errors == {"EmptyInput", "ParseError", "SchemaError"}

\* C1: after a successful run, for every entry with an id, its original id
\* is a key of invalid_ids iff its canonical form differs from it or was
\* already in cleaned_ids when that entry was processed.
C1_ReasonCompleteness ==
    outcome = "success" =>
        \A k \in 1..Len(In) :
            HasStrId(In[k]) =>
                ((In[k].id \in DOMAIN invalid_ids)
                    <=> (clean_id(In[k].id) # In[k].id \/ SeenBefore(k)))

\* C2: after a successful run, the reason of the first entry that produces
\* a canonical id does not say duplicate, and the reason of every later
\* entry producing that canonical id does.
C2_FirstNeverDuplicate ==
    outcome = "success" =>
        \A k \in 1..Len(In) :
            HasStrId(In[k]) =>
                (SaysDuplicate(get(invalid_ids, In[k].id)) <=> SeenBefore(k))

\* C3: a run ends in success, EmptyInput, ParseError or SchemaError, never
\* with an exception leaving main().
C3_FourOutcomes ==
    pc = "done" => outcome \in ({"success"} \cup Errors)

\* C4: the error checks run in the order EmptyInput, ParseError,
\* SchemaError; an error outcome ends the run with no id rewritten,
\* cleaned_ids, invalid_ids and id_map empty, and nothing rendered or
\* serialised.
C4_ErrorsTerminalBeforeMutation ==
    /\ outcome \in Errors =>
          /\ pc = "done"
          /\ data \in {NoData, original_text.data}
          /\ cleaned_ids = {}
          /\ DOMAIN invalid_ids = {}
          /\ DOMAIN id_map = {}
          /\ shown = "none"
          /\ corrected_json_str = NoData
    /\ pc = "done" =>
          /\ outcome = "EmptyInput" <=> original_text.kind \in {"empty", "blank"}
          /\ outcome = "ParseError" <=> original_text.kind = "invalid"
          /\ outcome = "SchemaError" =>
                /\ original_text.kind = "json"
                /\ ~(data.kind = "dict" /\ data.has_objects
                        /\ data.objects_type = "list")

\* A document without an "objects" list was refused after it was parsed.
C4_Witness ==
    /\ outcome = "SchemaError"
    /\ data.kind = "dict"
    /\ data.has_objects
    /\ pc = "done"

\* C8: after a successful run the corrected document has the entries of the
\* parsed input in their order; an entry without an id is the input entry,
\* an entry with an id is the input entry with clean_id of its id; the other
\* fields and the other top-level keys are those of the input.
C8_Frame ==
    outcome = "success" =>
        /\ Len(corrected_json_str.objects) = Len(In)
        /\ [corrected_json_str EXCEPT !.objects = In] = original_text.data
        /\ \A k \in 1..Len(In) :
              corrected_json_str.objects[k] =
                  IF HasStrId(In[k])
                  THEN [In[k] EXCEPT !.id = clean_id(In[k].id)]
                  ELSE In[k]

\* A successful run over an entry without an id and an entry whose id changed.
C8_Witness ==
    /\ outcome = "success"
    /\ \E k \in 1..Len(In) : In[k].kind = "dict" /\ ~In[k].has_id /\ In[k].other = 1
    /\ \E k \in 1..Len(In) :
          /\ HasStrId(In[k])
          /\ corrected_json_str.objects[k].id # In[k].id
          /\ corrected_json_str.objects[k].other = 1

\* cleaned_ids holds the canonical ids of the id-bearing entries processed.
SeenIsProcessed ==
    cleaned_ids = {clean_id(In[j].id) : j \in {k \in 1..(i - 1) : HasStrId(In[k])}}

\* An iteration on an entry whose canonical id is in cleaned_ids extends the
\* prior reason by " (duplicate)", or sets "duplicate" when there is none.
DuplicateStep ==
    (pc = "loop" /\ i <= Len(data.objects) /\ HasStrId(data.objects[i])
        /\ clean_id(data.objects[i].id) \in cleaned_ids)
    => LET orig == data.objects[i].id
           prior == IF clean_id(orig) # orig THEN <<INVALID>>
                    ELSE get(invalid_ids, orig)
       IN  /\ orig \in DOMAIN invalid_ids'
           /\ invalid_ids'[orig] =
                 IF prior # <<>> THEN prior \o <<" (duplicate)">> ELSE <<"duplicate">>
           /\ clean_id(orig) \in cleaned_ids'

\* C9: a duplicate appends to the identifier's reason, "<previous>
\* (duplicate)" with a prior reason and "duplicate" without; and after the
\* first k entries cleaned_ids is the set of the canonical ids of the
\* id-bearing entries among them.
C9_DuplicateReasonAndSeen == [](SeenIsProcessed) /\ [][DuplicateStep]_vars

\* Three entries with one canonical id were processed and both forms of the
\* duplicate reason were built.
C9_Witness ==
    /\ \E k \in DOMAIN invalid_ids : invalid_ids[k] = <<"duplicate">>
    /\ \E k \in DOMAIN invalid_ids : invalid_ids[k] = <<INVALID, " (duplicate)">>
    /\ i = 4
    /\ Cardinality(cleaned_ids) = 1

\* C10: every reason in invalid_ids is "invalid characters or uppercase",
\* "duplicate" or "invalid characters or uppercase (duplicate)".
C10_ThreeReasons ==
    \A k \in DOMAIN invalid_ids :
        invalid_ids[k] \in {<<INVALID>>, <<"duplicate">>, <<INVALID, " (duplicate)">>}

-----------------------------------------------------------------------------
(* Properties of clean_id (checked under SpecNorm) *)

StrictAllowed == LowerLetters \cup {"_"}

PermissiveAllowed == LowerLetters \cup Digits \cup {"_"}

Allowed(p) == IF p = "permissive" THEN PermissiveAllowed ELSE StrictAllowed

\* C5: every character of clean_id(x) is a lowercase letter or the
\* underscore, and clean_id(x) is not longer than x.
C5_Closure ==
    npc # "call" =>
        /\ \A k \in 1..Len(new_id) : new_id[k] \in StrictAllowed
        /\ Len(new_id) <= Len(original_id)

\* clean_id returned a shorter, non-empty string for a string whose lowercase is longer.
C5_Witness ==
    /\ npc # "call"
    /\ Len(lower(original_id)) > Len(original_id)
    /\ Len(new_id) < Len(original_id)
    /\ new_id # <<>>

C7_Idempotent ==
    npc = "returned" => again_id = new_id

\* clean_id was applied twice to a string that the first call changed.
C7_Witness ==
    /\ npc = "returned"
    /\ new_id # original_id
    /\ new_id # <<>>

====
